---- MODULE Spec2Model ----
(***************************************************************************)
(* A model of libertem_live/channel.py: the fixed-slot shared memory pool  *)
(* allocator (PoolShmAllocator), the per-process segment cache             *)
(* (PoolShmClient) and the channel (ShmQueue) that sends a pickled header  *)
(* through a queue and the payload through a pool slot.                    *)
(*                                                                         *)
(* Byte buffers are run-length encoded: a buffer is a sequence of runs     *)
(* [n |-> count, b |-> byte value], normalised so that no run is empty and *)
(* adjacent runs differ in their byte.  A payload or a view is either None *)
(* or [buf |-> buffer].                                                    *)
(*                                                                         *)
(* Python's assert statements are modelled as executed (the default        *)
(* interpreter mode): a failing assert ends the call with AssertionError.  *)
(* The two RuntimeErrors of allocate are told apart by their message:      *)
(* "cannot be serviced" is CapacityError, "out of memory" is               *)
(* OutOfMemoryError.                                                       *)
(***************************************************************************)
EXTENDS Integers, Sequences, FiniteSets, TLC

VARIABLES
    cfg,        \* the pool configuration: item_size and size_num_items
    psa,        \* per producer process: ShmQueue._psa (None or an allocator)
    mem,        \* per segment name: the bytes of the shared memory segment
    q,          \* ShmQueue.q: the metadata queue
    release_q,  \* ShmQueue.release_q: handles returned by consumers
    psc,        \* per consumer process: ShmQueue._psc (None or the cache)
    scope,      \* per consumer process: the open get() scope, or None
    held,       \* handles a direct user of the allocator has in use
    sent,       \* history: the (header, payload) of every put that enqueued
    recv,       \* history: what every get() yielded, in dequeue order
    pushed,     \* history: every handle pushed onto the release queue
    last,       \* the last call: what it was given and how it ended
    linked,     \* the names of the shared memory segments that exist
    closed,     \* per process: ShmQueue._closed
    pool,       \* the WorkerPool: its workers, their queues and processes
    loop,       \* where get_frames_from_queue is in its loop
    maxout,     \* history: the most handles that were outstanding at once
    task        \* where MerlinCommHandler.handle_task is in its task

vars == <<cfg, psa, mem, q, release_q, psc, scope, held, sent, recv, pushed, last,
          linked, closed, pool, loop, maxout, task>>

None == [none |-> TRUE]

\* ----------------------------------------------------------------- bounds

\* PoolShmAllocator.ALIGN_TO
ALIGN_TO == 4096

\* How many put calls may enqueue an entry in one run.
MaxPuts == 3

\* The pool configurations (item_size, size_num_items) the runs start from.
\* The channel fixes its own (512*512*4*2 bytes, 128*128 items, a multiple of
\* ALIGN_TO); these are small pools of the same allocator: one whose size is
\* rounded up to ALIGN_TO, one that is an exact multiple of it, one whose
\* item size does not divide ALIGN_TO.
Configs ==
    { [item_size |-> 1024, size_num_items |-> 2],
      [item_size |-> 4096, size_num_items |-> 2],
      [item_size |-> 3000, size_num_items |-> 2] }

Headers == {"DATA", "END"}

Producer == 1
MainProcess == 1
\* The worker processes that put on the shared response channel.
Workers == {1, 2}
\* The processes that call get() on a channel.
Consumers == {1, 2}
\* The process that reads the channel where there is one reader.
Reader == 2
\* The processes that hold a copy of the ShmQueue object.
Procs == Workers \cup Consumers

\* ------------------------------------------------------------ byte buffers

Min(a, b) == IF a < b THEN a ELSE b
Max(a, b) == IF a > b THEN a ELSE b

\* math.ceil(a / b) for positive b
CeilDiv(a, b) == (a + b - 1) \div b

\* n bytes of value f
Fill(n, f) == IF n = 0 THEN <<>> ELSE <<[n |-> n, b |-> f]>>

RECURSIVE nbytes(_)
nbytes(buf) == IF buf = <<>> THEN 0 ELSE Head(buf).n + nbytes(Tail(buf))

RECURSIVE Norm(_)
Norm(buf) ==
    IF buf = <<>> THEN <<>>
    ELSE IF Head(buf).n = 0 THEN Norm(Tail(buf))
    ELSE IF Len(buf) = 1 THEN buf
    ELSE LET rest == Norm(Tail(buf)) IN
         IF rest # <<>> /\ Head(rest).b = Head(buf).b
         THEN <<[n |-> Head(buf).n + Head(rest).n, b |-> Head(buf).b]>> \o Tail(rest)
         ELSE <<Head(buf)>> \o rest

\* buf[lo:hi] as Python slices a buffer: clamped to the buffer's length
RECURSIVE SliceRuns(_, _, _)
SliceRuns(buf, lo, hi) ==
    IF buf = <<>> \/ hi <= 0 THEN <<>>
    ELSE LET r == Head(buf)
             a == Max(lo, 0)
             b == Min(hi, r.n)
         IN  (IF b > a THEN <<[n |-> b - a, b |-> r.b]>> ELSE <<>>)
             \o SliceRuns(Tail(buf), lo - r.n, hi - r.n)

Slice(buf, lo, hi) == Norm(SliceRuns(buf, lo, hi))

\* dst[lo:lo+len(src)] = src
WriteAt(dst, lo, src) ==
    Norm(SliceRuns(dst, 0, lo) \o src \o SliceRuns(dst, lo + nbytes(src), nbytes(dst)))

\* ------------------------------------------------------- PoolAllocation

PoolAllocation(shm_name, handle, full_size, req_size) ==
    [shm_name |-> shm_name, handle |-> handle,
     full_size |-> full_size, req_size |-> req_size]

\* PoolAllocation.resize: [ok, ret]; the assert fails for a size above full_size
resize(alloc, new_req_size) ==
    IF ~(new_req_size <= alloc.full_size)
    THEN [outcome |-> "AssertionError", ret |-> None]
    ELSE [outcome |-> "ok",
          ret |-> PoolAllocation(alloc.shm_name, alloc.handle,
                                 alloc.full_size, new_req_size)]

\* ------------------------------------------------------ PoolShmAllocator

\* PoolShmAllocator.__init__: the segment is named after the process that
\* creates it (SharedMemory picks a fresh name for every segment created).
PoolShmAllocator(item_size, size_num_items, name) ==
    [item_size |-> item_size,
     size |-> ALIGN_TO * CeilDiv(item_size * size_num_items, ALIGN_TO),
     name |-> name,
     free |-> <<>>,
     used |-> 0]

\* The bytes of a segment SharedMemory(create=True, size=size) creates.
NewSegment(size) == Fill(size, 0)

\* Faulty variants of allocate, for testing that the properties below
\* depend on it.  The free list is read but not popped:
allocate_no_pop(a, req_size) ==
    IF req_size > a.item_size THEN
        [psa |-> a, outcome |-> "CapacityError", ret |-> None, src |-> "none"]
    ELSE IF Len(a.free) > 0 THEN
        [psa |-> a, outcome |-> "ok",
         ret |-> PoolAllocation(a.name, a.free[Len(a.free)], a.item_size, req_size),
         src |-> "free"]
    ELSE IF a.used + a.item_size < a.size THEN
        [psa |-> [a EXCEPT !.used = a.used + a.item_size],
         outcome |-> "ok",
         ret |-> PoolAllocation(a.name, a.used, a.item_size, req_size),
         src |-> "bump"]
    ELSE
        [psa |-> a, outcome |-> "OutOfMemoryError", ret |-> None, src |-> "none"]

\* The free list is popped at its front (free.pop(0)):
allocate_fifo(a, req_size) ==
    IF req_size > a.item_size THEN
        [psa |-> a, outcome |-> "CapacityError", ret |-> None, src |-> "none"]
    ELSE IF Len(a.free) > 0 THEN
        [psa |-> [a EXCEPT !.free = Tail(a.free)],
         outcome |-> "ok",
         ret |-> PoolAllocation(a.name, Head(a.free), a.item_size, req_size),
         src |-> "free"]
    ELSE IF a.used + a.item_size < a.size THEN
        [psa |-> [a EXCEPT !.used = a.used + a.item_size],
         outcome |-> "ok",
         ret |-> PoolAllocation(a.name, a.used, a.item_size, req_size),
         src |-> "bump"]
    ELSE
        [psa |-> a, outcome |-> "OutOfMemoryError", ret |-> None, src |-> "none"]

\* The watermark is bumped without comparing it to the segment size:
allocate_unbounded(a, req_size) ==
    IF req_size > a.item_size THEN
        [psa |-> a, outcome |-> "CapacityError", ret |-> None, src |-> "none"]
    ELSE IF Len(a.free) > 0 THEN
        [psa |-> [a EXCEPT !.free = SubSeq(a.free, 1, Len(a.free) - 1)],
         outcome |-> "ok",
         ret |-> PoolAllocation(a.name, a.free[Len(a.free)], a.item_size, req_size),
         src |-> "free"]
    ELSE
        [psa |-> [a EXCEPT !.used = a.used + a.item_size],
         outcome |-> "ok",
         ret |-> PoolAllocation(a.name, a.used, a.item_size, req_size),
         src |-> "bump"]

\* The watermark is bumped whenever it is below the segment size:
allocate_overrun(a, req_size) ==
    IF req_size > a.item_size THEN
        [psa |-> a, outcome |-> "CapacityError", ret |-> None, src |-> "none"]
    ELSE IF Len(a.free) > 0 THEN
        [psa |-> [a EXCEPT !.free = SubSeq(a.free, 1, Len(a.free) - 1)],
         outcome |-> "ok",
         ret |-> PoolAllocation(a.name, a.free[Len(a.free)], a.item_size, req_size),
         src |-> "free"]
    ELSE IF a.used < a.size THEN
        [psa |-> [a EXCEPT !.used = a.used + a.item_size],
         outcome |-> "ok",
         ret |-> PoolAllocation(a.name, a.used, a.item_size, req_size),
         src |-> "bump"]
    ELSE
        [psa |-> a, outcome |-> "OutOfMemoryError", ret |-> None, src |-> "none"]

\* PoolShmAllocator.allocate: [psa, outcome, ret, src]
allocate(a, req_size) ==
    IF req_size > a.item_size THEN
        [psa |-> a, outcome |-> "CapacityError", ret |-> None, src |-> "none"]
    ELSE IF Len(a.free) > 0 THEN
        [psa |-> [a EXCEPT !.free = SubSeq(a.free, 1, Len(a.free) - 1)],
         outcome |-> "ok",
         ret |-> PoolAllocation(a.name, a.free[Len(a.free)], a.item_size, req_size),
         src |-> "free"]
    ELSE IF a.used + a.item_size < a.size THEN
        [psa |-> [a EXCEPT !.used = a.used + a.item_size],
         outcome |-> "ok",
         ret |-> PoolAllocation(a.name, a.used, a.item_size, req_size),
         src |-> "bump"]
    ELSE
        [psa |-> a, outcome |-> "OutOfMemoryError", ret |-> None, src |-> "none"]

\* PoolShmAllocator.recycle
recycle(a, allocation) == [a EXCEPT !.free = Append(a.free, allocation.handle)]

\* PoolShmAllocator.get: [outcome, lo, hi], the window of the segment
psa_get(a, allocation) ==
    IF ~(allocation.shm_name = a.name)
    THEN [outcome |-> "AssertionError", lo |-> 0, hi |-> 0]
    ELSE [outcome |-> "ok",
          lo |-> Min(allocation.handle, a.size),
          hi |-> Min(allocation.handle + allocation.req_size, a.size)]

\* ------------------------------------------------------------- the state

\* `last` records the call made last: op is "allocate", "recycle", "resize",
\* "put", "get" (up to the yield, or failing) or "exit" (the end of a get
\* scope); who is the producer process that called (0 for a consumer's call);
\* req the size asked for; arg the handle given or tried; ret the handle
\* returned; src where the handle came from.
NoCall == [op |-> "none", who |-> 0, outcome |-> "none", req |-> 0,
           arg |-> None, ret |-> None, src |-> "none"]

Call(op, who, outcome, req, arg, ret, src) ==
    [op |-> op, who |-> who, outcome |-> outcome, req |-> req,
     arg |-> arg, ret |-> ret, src |-> src]

\* handle_task has not been called.
NoTask == [state |-> "idle"]

\* No WorkerPool has been constructed.
NoPool == [state |-> "none"]

\* The sizes a caller asks for: nothing, one byte, a full slot, one too many.
ReqSizes == {0, 1, cfg.item_size, cfg.item_size + 1}

RemoveAt(s, i) == SubSeq(s, 1, i - 1) \o SubSeq(s, i + 1, Len(s))

\* The state of a fresh ShmQueue in every process, before any call.
InitChannel ==
    /\ cfg \in Configs
    /\ psa = [p \in Workers |-> None]
    /\ mem = [p \in Workers |-> <<>>]
    /\ q = <<>>
    /\ release_q = <<>>
    /\ psc = [c \in Consumers |-> None]
    /\ scope = [c \in Consumers |-> None]
    /\ held = <<>>
    /\ sent = <<>>
    /\ recv = <<>>
    /\ pushed = <<>>
    /\ last = NoCall
    /\ linked = {}
    /\ closed = [p \in Procs |-> FALSE]
    /\ pool = NoPool
    /\ loop = "running"
    /\ maxout = 0
    /\ task = NoTask

\* ------------------------------------------- the allocator, used directly

\* A process constructs a PoolShmAllocator and calls it directly.
InitAlloc ==
    /\ cfg \in Configs
    /\ psa = [p \in Workers |->
                IF p = Producer
                THEN PoolShmAllocator(cfg.item_size, cfg.size_num_items, p)
                ELSE None]
    /\ mem = [p \in Workers |->
                IF p = Producer THEN NewSegment(psa[p].size) ELSE <<>>]
    /\ q = <<>>
    /\ release_q = <<>>
    /\ psc = [c \in Consumers |-> None]
    /\ scope = [c \in Consumers |-> None]
    /\ held = <<>>
    /\ sent = <<>>
    /\ recv = <<>>
    /\ pushed = <<>>
    /\ last = NoCall
    /\ linked = {Producer}
    /\ closed = [p \in Procs |-> FALSE]
    /\ pool = NoPool
    /\ loop = "running"
    /\ maxout = 0
    /\ task = NoTask

UserAllocate(req_size) ==
    LET r == allocate(psa[Producer], req_size) IN
    /\ psa' = [psa EXCEPT ![Producer] = r.psa]
    /\ held' = IF r.outcome = "ok" THEN Append(held, r.ret) ELSE held
    /\ last' = Call("allocate", Producer, r.outcome, req_size, None, r.ret, r.src)
    /\ UNCHANGED <<cfg, mem, q, release_q, psc, scope, sent, recv, pushed>>
    /\ UNCHANGED <<linked, closed, pool, loop, maxout, task>>

\* recycle is only called on a handle allocate returned and not yet recycled
UserRecycle(i) ==
    /\ psa' = [psa EXCEPT ![Producer] = recycle(psa[Producer], held[i])]
    /\ held' = RemoveAt(held, i)
    /\ last' = Call("recycle", Producer, "ok", 0, held[i], None, "none")
    /\ UNCHANGED <<cfg, mem, q, release_q, psc, scope, sent, recv, pushed>>
    /\ UNCHANGED <<linked, closed, pool, loop, maxout, task>>

UserResize(i, new_req_size) ==
    LET r == resize(held[i], new_req_size) IN
    /\ held' = IF r.outcome = "ok" THEN [held EXCEPT ![i] = r.ret] ELSE held
    /\ last' = Call("resize", Producer, r.outcome, new_req_size, held[i], r.ret, "none")
    /\ UNCHANGED <<cfg, psa, mem, q, release_q, psc, scope, sent, recv, pushed>>
    /\ UNCHANGED <<linked, closed, pool, loop, maxout, task>>

NextAlloc ==
    \/ \E n \in ReqSizes : UserAllocate(n)
    \/ \E i \in 1..Len(held) : UserRecycle(i)
    \/ \E i \in 1..Len(held) : \E n \in ReqSizes : UserResize(i, n)

SpecAlloc == InitAlloc /\ [][NextAlloc]_vars

\* ------------------------------------------------------------ PoolShmClient

\* PoolShmClient.__init__: the names of the segments this process attached
PoolShmClient == [shm_cache |-> {}]

\* A faulty variant of PoolShmClient.get: the window is the whole slot
\* (full_size) instead of the requested size.
psc_get_full_slot(client, allocation) ==
    [outcome |-> "ok",
     psc |-> [shm_cache |-> client.shm_cache \cup {allocation.shm_name}],
     lo |-> Min(allocation.handle, nbytes(mem[allocation.shm_name])),
     hi |-> Min(allocation.handle + allocation.full_size,
                nbytes(mem[allocation.shm_name]))]

\* PoolShmClient.get: attaches the named segment on first use, keeps it in
\* the cache, and returns the window [offset, offset + req_size) of it.
\* Attaching a name that does not exist raises FileNotFoundError; a segment
\* in the cache stays mapped in this process after its name was unlinked.
psc_get(client, allocation) ==
    IF allocation.shm_name \notin client.shm_cache /\ allocation.shm_name \notin linked
    THEN [outcome |-> "FileNotFoundError", psc |-> client, lo |-> 0, hi |-> 0]
    ELSE [outcome |-> "ok",
          psc |-> [shm_cache |-> client.shm_cache \cup {allocation.shm_name}],
          lo |-> Min(allocation.handle, nbytes(mem[allocation.shm_name])),
          hi |-> Min(allocation.handle + allocation.req_size,
                     nbytes(mem[allocation.shm_name]))]

\* ----------------------------------------------------------------- ShmQueue

\* mp.Queue, as ShmQueue.__init__ creates two of: put appends, get takes the
\* oldest entry.
\* (queue_put_front: a faulty variant, a stack instead of a queue)
queue_put_front(queue, item) == <<item>> \o queue
\* (queue_get_peek: a faulty variant, the entry stays in the queue)
queue_get_peek(queue) == [item |-> Head(queue), rest |-> queue]
queue_put(queue, item) == Append(queue, item)
queue_get(queue) == [item |-> Head(queue), rest |-> Tail(queue)]

pickle_dumps(header) == <<"pickle", header>>
pickle_loads(blob) == blob[2]

\* What the callers pass to put: a DATA header with a payload of one of the
\* sizes, or an END header without payload.  The payload of the k-th put that
\* enqueues is filled with the byte value k, so that no two payloads of a run
\* with bytes in them are equal.
PutInputs ==
    {[header |-> "DATA", payload |-> [buf |-> Fill(n, Len(sent) + 1)]] : n \in ReqSizes}
    \cup {[header |-> "END", payload |-> None]}

\* The result of a _copy_to_shm that raised.
CopyFailed(outcome, a, m, rq, attempted, src) ==
    [outcome |-> outcome, psa |-> a, mem |-> m, release_q |-> rq,
     arg |-> attempted, ret |-> None, src |-> src]

\* ShmQueue._copy_to_shm in process p:
\* [outcome, psa, mem, release_q, arg, ret, src]
copy_to_shm(p, src_buffer) ==
    LET fresh == psa[p] = None
        a0 == IF fresh
              THEN PoolShmAllocator(cfg.item_size, cfg.size_num_items, p)
              ELSE psa[p]
        m0 == IF fresh THEN [mem EXCEPT ![p] = NewSegment(a0.size)] ELSE mem
        size == nbytes(src_buffer)
        reuse == release_q # <<>>
        rq == IF reuse THEN queue_get(release_q).rest ELSE release_q
        rz == IF reuse THEN resize(queue_get(release_q).item, size)
              ELSE [outcome |-> "none", ret |-> None]
        al == IF reuse THEN [psa |-> a0, outcome |-> "none", ret |-> None, src |-> "none"]
              ELSE allocate(a0, size)
        src == IF reuse THEN "released" ELSE al.src
    IN
    IF reuse /\ rz.outcome # "ok" THEN
        CopyFailed(rz.outcome, a0, m0, rq, queue_get(release_q).item, src)
    ELSE IF ~reuse /\ al.outcome # "ok" THEN
        CopyFailed(al.outcome, a0, m0, rq, None, src)
    ELSE
        LET alloc_handle == IF reuse THEN rz.ret ELSE al.ret
            a1 == al.psa
            w == psa_get(a1, alloc_handle)
        IN
        IF w.outcome # "ok" THEN
            CopyFailed(w.outcome, a1, m0, rq, alloc_handle, src)
        ELSE IF ~(w.hi - w.lo = size) THEN
            CopyFailed("AssertionError", a1, m0, rq, alloc_handle, src)
        ELSE
            [outcome |-> "ok", psa |-> a1,
             mem |-> [m0 EXCEPT ![a1.name] = WriteAt(@, w.lo, src_buffer)],
             release_q |-> rq, arg |-> alloc_handle, ret |-> alloc_handle,
             src |-> src]

\* ShmQueue.put in process p.  The entry's id is a ghost: the position in
\* `sent` of the put that enqueued it.
PutCall(p, header, payload) ==
    /\ Len(sent) < MaxPuts
    /\ IF payload # None THEN
           LET r == copy_to_shm(p, payload.buf) IN
           /\ psa' = [psa EXCEPT ![p] = r.psa]
           /\ mem' = r.mem
           /\ release_q' = r.release_q
           /\ last' = Call("put", p, r.outcome, nbytes(payload.buf), r.arg, r.ret, r.src)
           /\ IF r.outcome = "ok"
              THEN /\ q' = queue_put(q, [header |-> pickle_dumps(header), typ |-> "bytes",
                                         payload_shm |-> r.ret, id |-> Len(sent) + 1])
                   /\ sent' = Append(sent, [header |-> header, payload |-> payload])
              ELSE UNCHANGED <<q, sent>>
       ELSE
           /\ q' = queue_put(q, [header |-> pickle_dumps(header), typ |-> "bytes",
                                 payload_shm |-> None, id |-> Len(sent) + 1])
           /\ sent' = Append(sent, [header |-> header, payload |-> None])
           /\ last' = Call("put", p, "ok", 0, None, None, "none")
           /\ UNCHANGED <<psa, mem, release_q>>
    /\ UNCHANGED <<cfg, psc, scope, held, recv, pushed>>
    /\ linked' = IF payload # None /\ psa[p] = None THEN linked \cup {p} ELSE linked
    /\ UNCHANGED <<closed, pool, loop>>

Put(p, header, payload) == PutCall(p, header, payload) /\ UNCHANGED <<maxout, task>>

\* The bytes a get scope's payload view shows now.
ViewOf(sc) ==
    IF sc.handle = None THEN None
    ELSE [buf |-> Slice(mem[sc.handle.shm_name], sc.lo, sc.hi)]

\* ShmQueue.get in process c, up to the yield: an entry is there (or arrives
\* while the call blocks), is dequeued, and its payload handle is resolved.
\* When resolving raises, the finally clause runs with payload_memview never
\* assigned: reading it raises UnboundLocalError, which is what the caller
\* gets, and the handle is not put on the release queue.
GetOpen(c) ==
    /\ scope[c] = None
    /\ q # <<>>
    /\ LET e == queue_get(q).item
           client == IF psc[c] = None THEN PoolShmClient ELSE psc[c]
           w == IF e.payload_shm # None THEN psc_get(client, e.payload_shm)
                ELSE [outcome |-> "ok", psc |-> client, lo |-> 0, hi |-> 0]
           sc == [header |-> pickle_loads(e.header), handle |-> e.payload_shm,
                  lo |-> w.lo, hi |-> w.hi, id |-> e.id]
       IN
       /\ e.typ = "bytes"
       /\ q' = queue_get(q).rest
       /\ psc' = [psc EXCEPT ![c] = w.psc]
       /\ IF w.outcome = "ok"
          THEN /\ scope' = [scope EXCEPT ![c] = sc]
               /\ recv' = Append(recv, [header |-> sc.header, view |-> ViewOf(sc),
                                      handle |-> e.payload_shm, id |-> e.id])
               /\ last' = Call("get", 0, "ok", 0, e.payload_shm, None, "none")
          ELSE /\ UNCHANGED <<scope, recv>>
               /\ last' = Call("get", 0, "UnboundLocalError", 0, e.payload_shm,
                               None, w.outcome)
    /\ UNCHANGED <<cfg, psa, mem, release_q, held, sent, pushed>>
    /\ UNCHANGED <<linked, closed, pool, loop, maxout, task>>

\* A faulty variant of the failing get: the timeout raises its own error.
GetEmpty_timeout_error(c, block, timeout) ==
    /\ scope[c] = None
    /\ q = <<>>
    /\ ~block \/ timeout
    /\ psc' = [psc EXCEPT ![c] = IF @ = None THEN PoolShmClient ELSE @]
    /\ last' = Call("get", 0, IF block THEN "TimeoutError" ELSE "Empty", 0, None, None,
                    IF block THEN "timeout" ELSE "nonblocking")
    /\ UNCHANGED <<cfg, psa, mem, q, release_q, scope, held, sent, recv, pushed>>
    /\ UNCHANGED <<linked, closed, pool, loop, maxout, task>>

\* ShmQueue.get in process c when no entry is there: q.get raises queue.Empty
\* at once with block=False, and after the timeout with block=True and a
\* timeout; with block=True and no timeout the call waits.
GetEmpty(c, block, timeout) ==
    /\ scope[c] = None
    /\ q = <<>>
    /\ ~block \/ timeout
    /\ psc' = [psc EXCEPT ![c] = IF @ = None THEN PoolShmClient ELSE @]
    /\ last' = Call("get", 0, "Empty", 0, None, None,
                    IF block THEN "timeout" ELSE "nonblocking")
    /\ UNCHANGED <<cfg, psa, mem, q, release_q, scope, held, sent, recv, pushed>>
    /\ UNCHANGED <<linked, closed, pool, loop, maxout, task>>

\* A faulty variant of the end of a get scope: no finally clause, so that a
\* with block that raises releases nothing.
ExitScope_no_finally(c, raised) ==
    /\ scope[c] # None
    /\ IF scope[c].handle # None /\ ~raised
       THEN /\ release_q' = queue_put(release_q, scope[c].handle)
            /\ pushed' = Append(pushed, scope[c].handle)
       ELSE UNCHANGED <<release_q, pushed>>
    /\ scope' = [scope EXCEPT ![c] = None]
    /\ last' = Call("exit", 0, IF raised THEN "raised" ELSE "ok", 0,
                    scope[c].handle, None, "none")
    /\ UNCHANGED <<cfg, psa, mem, q, psc, held, sent, recv>>
    /\ UNCHANGED <<linked, closed, pool, loop, maxout, task>>

\* The get scope of process c ends: the with block finished, or raised.  The
\* finally clause releases the view and puts the handle on the release queue.
ScopeExit(c, raised) ==
    /\ scope[c] # None
    /\ IF scope[c].handle # None
       THEN /\ release_q' = queue_put(release_q, scope[c].handle)
            /\ pushed' = Append(pushed, scope[c].handle)
       ELSE UNCHANGED <<release_q, pushed>>
    /\ scope' = [scope EXCEPT ![c] = None]
    /\ last' = Call("exit", 0, IF raised THEN "raised" ELSE "ok", 0,
                    scope[c].handle, None, "none")
    /\ UNCHANGED <<cfg, psa, mem, q, psc, held, sent, recv>>
    /\ UNCHANGED <<linked, closed, pool, maxout, task>>

ExitScope(c, raised) == ScopeExit(c, raised) /\ UNCHANGED loop

\* One channel with one producer process (a worker's request channel).
Next ==
    \/ \E in \in PutInputs : Put(Producer, in.header, in.payload)
    \/ \E c \in Consumers : GetOpen(c)
    \/ \E c \in Consumers : \E block, timeout \in BOOLEAN : GetEmpty(c, block, timeout)
    \/ \E c \in Consumers : \E raised \in BOOLEAN : ExitScope(c, raised)

Spec == InitChannel /\ [][Next]_vars

\* The response channel WorkerPool._make_worker_queues hands to every worker:
\* each worker process holds its own copy of the ShmQueue object, with its
\* own _psa, and all share q and release_q.  The process that owns the pool
\* reads the responses.
NextShared ==
    \/ \E p \in Workers : \E in \in PutInputs : Put(p, in.header, in.payload)
    \/ GetOpen(MainProcess)
    \/ \E block, timeout \in BOOLEAN : GetEmpty(MainProcess, block, timeout)
    \/ \E raised \in BOOLEAN : ExitScope(MainProcess, raised)

SpecShared == InitChannel /\ [][NextShared]_vars

\* How many handles are outstanding: enqueued and not yet released, that is
\* in an entry of `queue` or in one of the open get scopes `scopes`.
Outstanding(queue, scopes) ==
    Cardinality({i \in 1..Len(queue) : queue[i].payload_shm # None})
    + Cardinality({c \in Consumers : scopes[c] # None /\ scopes[c].handle # None})

\* ShmQueue.put, with the count of outstanding handles kept: only a put
\* raises it.
PutCounted(p, header, payload) ==
    /\ PutCall(p, header, payload)
    /\ maxout' = Max(maxout, Outstanding(q', scope'))
    /\ UNCHANGED task

\* The channel of Spec, with the history of the outstanding handles.
NextOutstanding ==
    \/ \E in \in PutInputs : PutCounted(Producer, in.header, in.payload)
    \/ \E c \in Consumers : GetOpen(c)
    \/ \E c \in Consumers : \E block, timeout \in BOOLEAN : GetEmpty(c, block, timeout)
    \/ \E c \in Consumers : \E raised \in BOOLEAN : ExitScope(c, raised)

SpecOutstanding == InitChannel /\ [][NextOutstanding]_vars

\* drain_queue: get_nowait until the queue raises Empty.
RECURSIVE drain_queue(_)
drain_queue(queue) ==
    IF queue = <<>> THEN queue ELSE drain_queue(queue_get(queue).rest)

\* A faulty variant of ShmQueue.close: no _closed flag, every call drains.
close_unguarded(p) ==
    /\ scope[p] = None
    /\ q' = drain_queue(q)
    /\ release_q' = drain_queue(release_q)
    /\ closed' = [closed EXCEPT ![p] = TRUE]
    /\ last' = Call("close", p, "ok", Len(q) + Len(release_q), None, None, last.outcome)
    /\ UNCHANGED <<cfg, psa, mem, psc, scope, held, sent, recv, pushed>>
    /\ UNCHANGED <<linked, pool, loop, maxout, task>>

\* ShmQueue.close in process p, called outside a get scope of p.  The first
\* call drains and closes q and release_q and sets _closed; a later call
\* does nothing.  In `last`, req is the number of entries discarded and src
\* is how the call before this one ended.
close(p) ==
    /\ scope[p] = None
    /\ IF ~closed[p]
       THEN /\ q' = drain_queue(q)
            /\ release_q' = drain_queue(release_q)
            /\ closed' = [closed EXCEPT ![p] = TRUE]
            /\ last' = Call("close", p, "ok", Len(q) + Len(release_q), None, None,
                            last.outcome)
       ELSE /\ UNCHANGED <<q, release_q, closed>>
            /\ last' = Call("close", p, "ok", 0, None, None, last.outcome)
    /\ UNCHANGED <<cfg, psa, mem, psc, scope, held, sent, recv, pushed>>
    /\ UNCHANGED <<linked, pool, loop, maxout, task>>


\* One channel, its producer process and its reader process, each of which
\* may close its ShmQueue at any time; a process that has closed its queues
\* makes no further put or get.
NextClose ==
    \/ /\ ~closed[Producer]
       /\ \E in \in PutInputs : Put(Producer, in.header, in.payload)
    \/ ~closed[Reader] /\ GetOpen(Reader)
    \/ /\ ~closed[Reader]
       /\ \E block, timeout \in BOOLEAN : GetEmpty(Reader, block, timeout)
    \/ \E raised \in BOOLEAN : ExitScope(Reader, raised)
    \/ \E p \in Procs : close(p)

SpecClose == InitChannel /\ [][NextClose]_vars

\* --------------------------------------------------------------- WorkerPool

\* The most worker processes a pool is constructed with.
MaxWorkers == 2
\* The most headers the owner of a pool puts on the request channels.
MaxRequests == 3

\* The state of a pool is held in `pool`:
\*   state       "none", "starting" (inside _start_workers), "ready" (the
\*               constructor returned) or "failed" (the constructor raised)
\*   processes   self._processes
\*   response_q  self._response_q, the identity of a ShmQueue object
\*   next_id     the identity the next ShmQueue() gets
\*   workers     self._workers: (queues, p) pairs, p an index into procs
\*   procs       the processes started: their arguments (queues, idx), whether
\*               they run, and the headers they have taken from their queue
\*   chans       the entries in the metadata queue of each ShmQueue
\*   nput        how many headers the owner has put
\*   join, j     where join_all is: "idle", "joining" at worker j, "returned"
\*   iters       what the last two iterations of all_worker_queues yielded
WorkerQueues(request, response) == [request |-> request, response |-> response]

\* A faulty variant of _make_worker_queues: one request channel for all.
make_worker_queues_shared(pl) ==
    [queues |-> WorkerQueues(pl.response_q + 1, pl.response_q),
     next_id |-> pl.next_id + 1]

\* WorkerPool._make_worker_queues: a new ShmQueue for the requests, and the
\* response queue of the pool.
make_worker_queues(pl) ==
    [queues |-> WorkerQueues(pl.next_id, pl.response_q),
     next_id |-> pl.next_id + 1]

PoolOnly ==
    UNCHANGED <<cfg, psa, mem, q, release_q, psc, scope, held, sent, recv, pushed,
                last, linked, closed, loop, maxout, task>>

\* WorkerPool.__init__ up to the call of _start_workers.
WorkerPool(processes) ==
    /\ pool.state = "none"
    /\ pool' = [state |-> IF processes = 0 THEN "ready" ELSE "starting",
                processes |-> processes,
                response_q |-> 1,
                next_id |-> 2,
                workers |-> <<>>,
                procs |-> <<>>,
                chans |-> (1 :> <<>>),
                nput |-> 0,
                join |-> "idle",
                j |-> 0,
                iters |-> <<>>]
    /\ PoolOnly

\* One round of the loop of _start_workers.  p.start() either starts the
\* process or raises; nothing catches the error, so it ends the constructor
\* and leaves the processes started before as they are.
start_worker(ok) ==
    /\ pool.state = "starting"
    /\ LET i == Len(pool.workers)
           mk == make_worker_queues(pool)
           withq == [pool EXCEPT !.next_id = mk.next_id,
                                 !.chans = (mk.queues.request :> <<>>) @@ @]
       IN
       IF ok THEN
           pool' = [withq EXCEPT
                      !.procs = Append(@, [args |-> [queues |-> mk.queues, idx |-> i],
                                           state |-> "running", seen |-> <<>>]),
                      !.workers = Append(@, [queues |-> mk.queues,
                                             p |-> Len(pool.procs) + 1]),
                      !.state = IF i + 1 = pool.processes THEN "ready" ELSE "starting"]
       ELSE
           pool' = [withq EXCEPT !.state = "failed"]
    /\ PoolOnly

\* The owner of the pool puts a header without payload on the request
\* channel of worker k: get_worker_queues(k - 1).request.put(header).
RequestPut(k, header) ==
    /\ pool.state = "ready"
    /\ pool.nput < MaxRequests
    /\ k \in 1..Len(pool.workers)
    /\ pool' = [pool EXCEPT
                  !.chans[pool.workers[k].queues.request] =
                      queue_put(@, [header |-> pickle_dumps(header), typ |-> "bytes",
                                    payload_shm |-> None]),
                  !.nput = @ + 1]
    /\ PoolOnly

\* The worker function in process k: it loops on queues.request.get() until
\* it gets the termination header END, and then returns.
WorkerStep(k) ==
    /\ pool.state # "none"
    /\ k \in 1..Len(pool.procs)
    /\ pool.procs[k].state = "running"
    /\ LET rq == pool.procs[k].args.queues.request IN
       /\ pool.chans[rq] # <<>>
       /\ LET e == queue_get(pool.chans[rq])
              header == pickle_loads(e.item.header)
          IN
          pool' = [pool EXCEPT
                     !.chans[rq] = e.rest,
                     !.procs[k].seen = Append(@, header),
                     !.procs[k].state = IF header = "END" THEN "terminated"
                                        ELSE "running"]
    /\ PoolOnly

\* all_worker_queues, iterated to its end.
all_worker_queues ==
    /\ pool.state = "ready"
    /\ LET yielded == [k \in 1..Len(pool.workers) |-> pool.workers[k].queues] IN
       pool' = [pool EXCEPT !.iters = IF Len(@) = 2 THEN <<@[2], yielded>>
                                      ELSE Append(@, yielded)]
    /\ PoolOnly

\* join_all is called.
JoinCall ==
    /\ pool.state = "ready"
    /\ pool.join = "idle"
    /\ pool' = [pool EXCEPT !.join = "joining", !.j = 1]
    /\ PoolOnly

\* A faulty variant of join_all: it does not wait for the processes.
join_all_no_wait ==
    /\ pool.state = "ready"
    /\ pool.join = "joining"
    /\ IF pool.j > Len(pool.workers)
       THEN pool' = [pool EXCEPT !.join = "returned"]
       ELSE pool' = [pool EXCEPT !.j = @ + 1]
    /\ PoolOnly

\* join_all, one round of its loop: p.join() returns when the process has
\* terminated; after the last worker join_all returns.
join_all ==
    /\ pool.state = "ready"
    /\ pool.join = "joining"
    /\ IF pool.j > Len(pool.workers)
       THEN pool' = [pool EXCEPT !.join = "returned"]
       ELSE /\ pool.procs[pool.workers[pool.j].p].state = "terminated"
            /\ pool' = [pool EXCEPT !.j = @ + 1]
    /\ PoolOnly

NextPool ==
    \/ \E n \in 0..MaxWorkers : WorkerPool(n)
    \/ \E ok \in BOOLEAN : start_worker(ok)
    \/ \E k \in 1..MaxWorkers : \E header \in Headers : RequestPut(k, header)
    \/ \E k \in 1..MaxWorkers : WorkerStep(k)
    \/ all_worker_queues
    \/ JoinCall
    \/ join_all

SpecPool == InitChannel /\ [][NextPool]_vars

\* The pool with its processes scheduled fairly: a worker whose request
\* queue holds an entry takes it, and a join on a terminated process
\* returns.
SpecPoolFair ==
    /\ SpecPool
    /\ \A k \in 1..MaxWorkers : WF_vars(WorkerStep(k))
    /\ WF_vars(join_all)

\* --------------------------------------------------- get_frames_from_queue

\* What handle_task and other callers put on a request channel: FRAME headers
\* with a payload, END_PARTITION without, and the headers of PutInputs, which
\* the frame loop does not know.
FrameInputs ==
    {[header |-> "FRAME", payload |-> [buf |-> Fill(n, Len(sent) + 1)]] : n \in ReqSizes}
    \cup {[header |-> "END_PARTITION", payload |-> None]}
    \cup PutInputs

\* get_frames_from_queue in process c, `with queue.get() as msg`: the call
\* blocks until an entry is there.
FramesGet(c) == loop = "running" /\ GetOpen(c)

\* A faulty variant of the body: an entry with an unknown header type is
\* skipped.
FramesBody_skip_unknown(c) ==
    /\ loop = "running"
    /\ scope[c] # None
    /\ IF scope[c].header = "FRAME" THEN
           /\ loop' = "yielded"
           /\ last' = Call("yield", 0, "ok", 0, scope[c].handle, None, "none")
           /\ UNCHANGED <<cfg, psa, mem, q, release_q, psc, scope, held, sent, recv,
                          pushed, linked, closed, pool, maxout, task>>
       ELSE IF scope[c].header = "END_PARTITION" THEN
           /\ ScopeExit(c, FALSE)
           /\ loop' = "done"
       ELSE
           /\ ScopeExit(c, FALSE)
           /\ loop' = "running"

\* get_frames_from_queue, the body of the with block: a FRAME is decoded and
\* yielded, with the get scope still open; END_PARTITION returns and any
\* other header type raises RuntimeError, both through the end of the scope.
FramesBody(c) ==
    /\ loop = "running"
    /\ scope[c] # None
    /\ IF scope[c].header = "FRAME" THEN
           /\ loop' = "yielded"
           /\ last' = Call("yield", 0, "ok", 0, scope[c].handle, None, "none")
           /\ UNCHANGED <<cfg, psa, mem, q, release_q, psc, scope, held, sent, recv,
                          pushed, linked, closed, pool, maxout, task>>
       ELSE IF scope[c].header = "END_PARTITION" THEN
           /\ ScopeExit(c, FALSE)
           /\ loop' = "done"
       ELSE
           /\ ScopeExit(c, TRUE)
           /\ loop' = "failed"

\* The caller asks the generator for the next frames: the with block ends
\* and the loop goes on to the next queue.get().
FramesResume(c) ==
    /\ loop = "yielded"
    /\ ScopeExit(c, FALSE)
    /\ loop' = "running"

\* The caller closes (or drops) the generator while it is suspended at the
\* yield: GeneratorExit is raised there and leaves the with block.
FramesClose(c) ==
    /\ loop = "yielded"
    /\ ScopeExit(c, TRUE)
    /\ loop' = "closed"

\* A request channel: the producer puts, the Reader process runs
\* get_frames_from_queue on it.
NextFrames ==
    \/ \E in \in FrameInputs : Put(Producer, in.header, in.payload)
    \/ FramesGet(Reader)
    \/ FramesBody(Reader)
    \/ FramesResume(Reader)
    \/ FramesClose(Reader)

SpecFrames == InitChannel /\ [][NextFrames]_vars

\* ------------------------------------------- MerlinCommHandler.handle_task

\* The tiling depth the handler is constructed with.
tiling_depth == 24
frame_chunk_size == Min(32, tiling_depth)

\* The frame counts of the partitions of the tasks.
PartitionFrames == {0, 1, 2, tiling_depth, tiling_depth + 1}

\* What read_multi_frames returns when asked for num_frames frames: False
\* (timeout), True (no more data), or a result with fewer or all of them.
ReadResults(num_frames) ==
    {[kind |-> "False"], [kind |-> "True"]}
    \cup {[kind |-> "frames", num_frames |-> k] : k \in {1, num_frames}}

\* handle_task is called for a partition of num_frames_in_partition frames.
\* In `task`, state is "idle", "reading" (in the while loop or just after
\* it), "returned" or "raised".
handle_task_start(num_frames_in_partition) ==
    /\ task.state = "idle"
    /\ task' = [state |-> "reading",
                num_frames_in_partition |-> num_frames_in_partition,
                frames_read |-> 0]
    /\ UNCHANGED <<cfg, psa, mem, q, release_q, psc, scope, held, sent, recv, pushed,
                   last, linked, closed, pool, loop, maxout>>

\* One round of the while loop of handle_task: a read of the next chunk of
\* frames, which raises RuntimeError on False and on True, and otherwise
\* puts a FRAME entry whose payload holds the frames read (one byte stands
\* for a frame).  A put that raises ends handle_task as well.
handle_task_read(res) ==
    /\ task.state = "reading"
    /\ task.frames_read < task.num_frames_in_partition
    /\ res \in ReadResults(Min(task.num_frames_in_partition - task.frames_read,
                                frame_chunk_size))
    /\ IF res.kind # "frames" THEN
           /\ task' = [task EXCEPT !.state = "raised"]
           /\ last' = Call("handle_task", Producer, "RuntimeError", 0, None, None,
                           res.kind)
           /\ UNCHANGED <<cfg, psa, mem, q, release_q, psc, scope, held, sent, recv,
                          pushed, linked, closed, pool, loop, maxout>>
       ELSE
           /\ PutCall(Producer, "FRAME",
                      [buf |-> Fill(res.num_frames, Len(sent) + 1)])
           /\ task' = [task EXCEPT
                         !.frames_read = @ + res.num_frames,
                         !.state = IF last'.outcome = "ok" THEN "reading"
                                   ELSE "raised"]
           /\ UNCHANGED maxout

\* handle_task after the while loop: it puts END_PARTITION and returns.
handle_task_end ==
    /\ task.state = "reading"
    /\ task.frames_read >= task.num_frames_in_partition
    /\ PutCall(Producer, "END_PARTITION", None)
    /\ task' = [task EXCEPT !.state = "returned"]
    /\ UNCHANGED maxout

\* One task: handle_task puts on the request channel of a worker, whose
\* process (Reader) runs get_frames_from_queue on it.
NextTask ==
    \/ \E n \in PartitionFrames : handle_task_start(n)
    \/ \E res \in ReadResults(frame_chunk_size) \cup ReadResults(1) \cup ReadResults(2) :
           handle_task_read(res)
    \/ handle_task_end
    \/ FramesGet(Reader)
    \/ FramesBody(Reader)
    \/ FramesResume(Reader)
    \/ FramesClose(Reader)

SpecTask == InitChannel /\ [][NextTask]_vars

\* PoolShmAllocator.shutdown in process p: unlinks the name of the segment.
\* The segment stays mapped in the processes that attached it.
shutdown(p) ==
    /\ psa[p] # None
    /\ psa[p].name \in linked
    /\ linked' = linked \ {psa[p].name}
    /\ last' = Call("shutdown", p, "ok", 0, None, None, "none")
    /\ UNCHANGED <<cfg, psa, mem, q, release_q, psc, scope, held, sent, recv, pushed>>
    /\ UNCHANGED <<closed, pool, loop, maxout, task>>

\* One channel whose producer may shut its allocator down at any time.
NextShutdown ==
    \/ \E in \in PutInputs : Put(Producer, in.header, in.payload)
    \/ \E c \in Consumers : GetOpen(c)
    \/ \E c \in Consumers : \E block, timeout \in BOOLEAN : GetEmpty(c, block, timeout)
    \/ \E c \in Consumers : \E raised \in BOOLEAN : ExitScope(c, raised)
    \/ shutdown(Producer)

SpecShutdown == InitChannel /\ [][NextShutdown]_vars

\* ------------------------------------------------------------- properties

Count(seq, x) == Cardinality({i \in 1..Len(seq) : seq[i] = x})

\* The ids of the entries whose get scope is open.
OpenIds == {scope[c].id : c \in {d \in Consumers : scope[d] # None}}

\* The handles of the dequeued entries that carried one and whose scope ended.
ClosedHandles ==
    LET Closed(e) == e.handle # None /\ e.id \notin OpenIds
        es == SelectSeq(recv, Closed)
    IN  [i \in 1..Len(es) |-> es[i].handle]

\* How many of the entries enqueued so far carried a payload.
PayloadCount(entries) == Cardinality({i \in 1..Len(entries) : entries[i].payload # None})

\* C1: every handle dequeued by get() is pushed onto the release queue exactly
\* once when its scope ends, whether the with block finished or raised, and an
\* entry without a handle pushes nothing: the pushes are exactly the handles
\* of the ended scopes, and the release queue holds the latest of them.
C1_ReleasedExactlyOnce ==
    /\ Len(pushed) = Len(ClosedHandles)
    /\ \A i \in 1..Len(pushed) :
          /\ pushed[i] # None
          /\ Count(pushed, pushed[i]) = Count(ClosedHandles, pushed[i])
    /\ Len(release_q) <= Len(pushed)
    /\ release_q = SubSeq(pushed, Len(pushed) - Len(release_q) + 1, Len(pushed))

\* A scope with a handle ended by an exception, after another scope ended.
C1_Witness ==
    /\ last.op = "exit" /\ last.outcome = "raised" /\ last.arg # None
    /\ Len(pushed) = 2
    /\ \E i \in 1..Len(recv) : recv[i].handle = None /\ recv[i].id \notin OpenIds

\* C2: on a channel with one producer, the view a get scope holds shows
\* exactly the bytes that were put, for as long as the scope is open, and so
\* does the slot of every entry still in the metadata queue.
C2_RoundTrip ==
    /\ \A c \in Consumers :
          scope[c] # None => ViewOf(scope[c]) = sent[scope[c].id].payload
    /\ \A i \in 1..Len(q) :
          q[i].payload_shm # None =>
              [buf |-> Slice(mem[q[i].payload_shm.shm_name], q[i].payload_shm.handle,
                             q[i].payload_shm.handle + q[i].payload_shm.req_size)]
                  = sent[q[i].id].payload

\* A scope on a full slot is open while a later put has reused a released slot.
C2_Witness ==
    /\ last.op = "put" /\ last.outcome = "ok" /\ last.src = "released"
    /\ \E c \in Consumers :
          /\ scope[c] # None /\ scope[c].handle # None
          /\ scope[c].handle.req_size = cfg.item_size
          /\ scope[c].id < Len(sent)

\* C3: with recycle called only on handles in use, every handle allocate
\* returns has req_size <= full_size, and no two handles in use share an offset.
C3_InUseDisjoint ==
    /\ \A i \in 1..Len(held) : held[i].req_size <= held[i].full_size
    /\ \A i, j \in 1..Len(held) : i # j => held[i].handle # held[j].handle
    /\ (last.op = "allocate" /\ last.outcome = "ok")
          => last.ret.req_size <= last.ret.full_size

\* Two handles are in use and the last one came from the free list.
C3_Witness ==
    /\ Len(held) >= 2
    /\ last.op = "allocate" /\ last.outcome = "ok" /\ last.src = "free"

\* C4: on the response channel the workers share, no put ever attempts to
\* write through a handle whose segment belongs to another process's
\* allocator (a handle is reused only by the process that issued it).
C4_HandlesStayWithIssuer ==
    (last.op = "put" /\ last.arg # None) => last.arg.shm_name = psa[last.who].name

\* C5 as stated: N + 1 consecutive puts with a payload and no get in between
\* make the (N + 1)-th fail, so no more than N of them ever enqueue.
C5_FailsAfterSlotCount ==
    (recv = <<>> /\ PayloadCount(sent) = Len(sent)) => Len(sent) <= cfg.size_num_items

\* C5, amended: with no get in between, consecutive puts with a payload are
\* limited by the bytes of the segment, not by the slot count: each bumps the
\* watermark by one slot, at most size \div item_size of them enqueue, a put of
\* a payload that fits a slot fails only with the out of memory error and only
\* when no further slot fits below the end of the segment, and the failed put
\* has enqueued nothing and taken nothing.
C5_Exhaustion ==
    (recv = <<>> /\ psa[Producer] # None) =>
        LET a == psa[Producer]
            k == PayloadCount(sent)
        IN  /\ a.used = k * a.item_size
            /\ k <= a.size \div a.item_size
            /\ Len(q) = Len(sent)
            /\ release_q = <<>>
            /\ (last.op = "put" /\ last.outcome # "ok" /\ last.req <= a.item_size)
                  => /\ last.outcome = "OutOfMemoryError"
                     /\ a.used + a.item_size >= a.size

\* With no get so far, a put with a payload that fits a slot failed with the
\* out of memory error after earlier puts had enqueued.
C5_Witness ==
    /\ recv = <<>>
    /\ last.op = "put" /\ last.outcome = "OutOfMemoryError"
    /\ PayloadCount(sent) >= 1

\* C6: allocate of a size that fits a slot fails only with the out of memory
\* error and only when the free list is empty and no further slot fits
\* (used + item_size > size), so a pool of N slots holds N handles at once.
C6_FailsOnlyWhenFull ==
    (last.op = "allocate" /\ last.req <= cfg.item_size /\ last.outcome # "ok")
        => /\ last.outcome = "OutOfMemoryError"
           /\ psa[Producer].free = <<>>
           /\ psa[Producer].used + psa[Producer].item_size > psa[Producer].size

\* C7: a put with a payload larger than a slot raises CapacityError whatever
\* the release queue holds, enqueues nothing, and leaves the allocator's
\* watermark and free list as they were.
C7_OversizePut ==
    [][(last'.op = "put" /\ last'.req > cfg.item_size) =>
          /\ last'.outcome = "CapacityError"
          /\ q' = q
          /\ psa[last'.who] # None =>
                /\ psa'[last'.who].used = psa[last'.who].used
                /\ psa'[last'.who].free = psa[last'.who].free
          /\ psa[last'.who] = None =>
                /\ psa'[last'.who].used = 0
                /\ psa'[last'.who].free = <<>>]_vars

\* C8: the free list is a stack: the allocate after recycle(h) returns h's
\* offset, and any allocate from a free list that is not empty returns its
\* newest offset and leaves the watermark alone; resize(n) with n <= full_size
\* returns the same segment name, offset and full_size with req_size = n.
C8_LifoAndResize ==
    [][/\ (last'.op = "allocate" /\ last'.req <= cfg.item_size
              /\ Len(psa[Producer].free) > 0) =>
              /\ last'.outcome = "ok"
              /\ last'.ret.handle = psa[Producer].free[Len(psa[Producer].free)]
              /\ psa'[Producer].used = psa[Producer].used
              /\ last.op = "recycle" => last'.ret.handle = last.arg.handle
       /\ (last'.op = "resize" /\ last'.req <= last'.arg.full_size) =>
              /\ last'.outcome = "ok"
              /\ last'.ret = [last'.arg EXCEPT !.req_size = last'.req]
      ]_vars

\* An allocate right after a recycle, with an older offset below it in the
\* free list.
C8_Witness ==
    /\ last.op = "allocate" /\ last.outcome = "ok" /\ last.src = "free"
    /\ Len(psa[Producer].free) >= 1

\* C9: entries are dequeued in the order they were enqueued, none lost and
\* none twice, each with the header and the payload bytes that were put.
C9_Fifo ==
    /\ [i \in 1..Len(recv) |-> recv[i].id] \o [i \in 1..Len(q) |-> q[i].id]
          = [i \in 1..Len(sent) |-> i]
    /\ \A i \in 1..Len(recv) :
          /\ recv[i].header = sent[recv[i].id].header
          /\ recv[i].view = sent[recv[i].id].payload

\* A DATA entry with a payload of item_size bytes came first, then END.
C9_Witness ==
    /\ Len(recv) = 2
    /\ recv[1].header = "DATA" /\ recv[1].view # None
    /\ nbytes(recv[1].view.buf) = cfg.item_size
    /\ cfg.item_size = 1024
    /\ recv[2].header = "END" /\ recv[2].view = None

\* C10 as stated: a blocking get whose timeout passes fails with TimeoutError.
C10_TimeoutError ==
    (last.op = "get" /\ last.src = "timeout") => last.outcome = "TimeoutError"

\* C10, amended: a get on a channel whose metadata queue holds no entry
\* fails with EmptyError, with block=False and with block=True and a timeout
\* alike, and dequeues nothing and pushes nothing onto the release queue.
C10_EmptyGet ==
    [][(last'.op = "get" /\ last'.outcome # "ok") =>
          /\ q = <<>>
          /\ last'.outcome = "Empty"
          /\ last'.src \in {"timeout", "nonblocking"}
          /\ UNCHANGED <<q, release_q, pushed, recv, scope>>]_vars

\* A blocking get timed out after entries had gone through the channel.
C10_Witness ==
    /\ last.op = "get" /\ last.outcome = "Empty" /\ last.src = "timeout"
    /\ Len(recv) >= 1

\* C11: a get whose entry carries a handle of a segment that its allocator
\* has shut down fails with FileNotFoundError (the NotFoundError), whether
\* or not the consumer had the segment in its cache.
C11_NotFoundAfterShutdown ==
    (last.op = "get" /\ last.arg # None /\ last.arg.shm_name \notin linked)
        => last.outcome = "FileNotFoundError"

\* The slot a handle names: the segment and the offset in it.
SlotOf(h) == <<h.shm_name, h.handle>>

\* The consumers inside a get scope whose entry carried a payload.
Viewing == {c \in Consumers : scope[c] # None /\ scope[c].handle # None}

\* C12: no slot is held inside two open get scopes at once, and a put that
\* succeeded did not write into a slot that a get scope was holding open.
C12_OneViewPerHandle ==
    /\ \A c, d \in Viewing : c # d => SlotOf(scope[c].handle) # SlotOf(scope[d].handle)
    /\ (last.op = "put" /\ last.outcome = "ok" /\ last.ret # None)
           => \A c \in Viewing : SlotOf(scope[c].handle) # SlotOf(last.ret)

\* A put reused a released slot while a get scope on another slot was open.
C12_Witness ==
    /\ Viewing # {}
    /\ last.op = "put" /\ last.outcome = "ok" /\ last.src = "released"

\* The allocator of the producer process is well formed: sizes, watermark,
\* the offsets in use (held) and the offsets on the free list.
AllocatorWellFormed ==
    LET a == psa[Producer]
        InSegment(off) == off % a.item_size = 0 /\ off >= 0
                          /\ off + a.item_size <= a.size
    IN
    /\ a.size % ALIGN_TO = 0
    /\ a.size >= cfg.item_size * cfg.size_num_items
    /\ a.used % a.item_size = 0
    /\ a.used <= a.size
    /\ \A i \in 1..Len(held) : InSegment(held[i].handle) /\ held[i].handle < a.used
    /\ \A i \in 1..Len(a.free) : InSegment(a.free[i]) /\ a.free[i] < a.used
    /\ \A i, j \in 1..Len(a.free) : i # j => a.free[i] # a.free[j]
    /\ \A i \in 1..Len(a.free) : \A j \in 1..Len(held) : a.free[i] # held[j].handle

\* C18: after construction and after every allocate and recycle the allocator
\* is well formed (segment size a multiple of 4096 and at least slot size x
\* slot count; watermark a multiple of the slot size and within the segment;
\* every issued offset a slot boundary with the slot inside the segment; no
\* offset twice on the free list or both free and in use), and the watermark
\* never decreases.
C18_AllocatorInvariants ==
    [][/\ AllocatorWellFormed
       /\ AllocatorWellFormed'
       /\ psa'[Producer].used >= psa[Producer].used]_vars

\* The watermark is at its end, and some slots are free and some in use.
C18_Witness ==
    /\ psa[Producer].used + psa[Producer].item_size >= psa[Producer].size
    /\ psa[Producer].free # <<>>
    /\ held # <<>>

\* In how many places the slot at offset off of the producer's segment is
\* referenced: entries of q, open get scopes, entries of release_q.
SlotRefs(off) ==
    Cardinality({i \in 1..Len(q) : q[i].payload_shm # None
                                    /\ q[i].payload_shm.handle = off})
    + Cardinality({c \in Viewing : scope[c].handle.handle = off})
    + Cardinality({i \in 1..Len(release_q) : release_q[i].handle = off})

\* The offsets of the slots below the used watermark.
IssuedOffsets ==
    IF psa[Producer] = None THEN {}
    ELSE {k * psa[Producer].item_size :
            k \in 0..((psa[Producer].used \div psa[Producer].item_size) - 1)}

\* C20: every slot below the used watermark is referenced in exactly one
\* place: one entry of q, one open get scope, or one entry of release_q.
C20_SlotConservation == \A off \in IssuedOffsets : SlotRefs(off) = 1

\* The used watermark of the producer's allocator (0 before it exists).
UsedOf(a) == IF a = None THEN 0 ELSE a.used

\* C19: a put advances the used watermark only when the release queue is
\* empty at that moment; a put that finds a released handle and succeeds
\* reuses that slot (same segment, offset and capacity) with req_size set to
\* the length of the new payload; and the used watermark never exceeds the
\* slot size times the most handles that were ever outstanding at once.
C19_RecycleBoundsGrowth ==
    [][/\ UsedOf(psa'[Producer]) > UsedOf(psa[Producer]) => release_q = <<>>
       /\ (last'.op = "put" /\ last'.outcome = "ok" /\ last'.ret # None
              /\ release_q # <<>>)
             => last'.ret = PoolAllocation(Head(release_q).shm_name,
                                           Head(release_q).handle,
                                           Head(release_q).full_size, last'.req)
       /\ UsedOf(psa'[Producer]) <= maxout' * cfg.item_size]_vars

\* The outcomes of a put or a get that failed.
Failures == {"CapacityError", "OutOfMemoryError", "AssertionError", "Empty",
             "UnboundLocalError"}

\* C13: the first close() of a process discards every entry of both queues
\* and closes them; a later close() of that process changes nothing; no
\* close() raises, also not after a put or get that failed.
C13_CloseIdempotent ==
    [][last'.op = "close" =>
         /\ last'.outcome = "ok"
         /\ closed'[last'.who]
         /\ IF closed[last'.who]
            THEN UNCHANGED <<cfg, psa, mem, q, release_q, psc, scope, held, sent,
                             recv, pushed, linked, closed, pool, loop, maxout, task>>
            ELSE /\ q' = <<>>
                 /\ release_q' = <<>>
                 /\ UNCHANGED <<cfg, psa, mem, psc, scope, held, sent, recv, pushed,
                                linked, pool, loop, maxout, task>>]_vars

\* A first close() right after a call that failed, discarding entries.
C13_Witness ==
    /\ last.op = "close"
    /\ last.src \in Failures
    /\ last.req >= 2
    /\ q = <<>> /\ release_q = <<>>
    /\ closed[last.who]

\* How many of the dequeued entries the frame loop has dispatched on: all
\* but the one whose with block has just been entered.
Dispatched ==
    IF loop = "running" /\ scope[Reader] # None THEN Len(recv) - 1 ELSE Len(recv)

\* C17: get_frames_from_queue dispatches on the header type of every entry:
\* it goes on after a FRAME, returns at END_PARTITION, and raises at any
\* other type, so that no entry after a non-FRAME one is read and none is
\* skipped; and the handle of every entry whose with block was left has
\* been put on the release queue exactly once.
C17_FrameLoop ==
    /\ \A i \in 1..Dispatched :
          \/ recv[i].header = "FRAME"
          \/ i = Len(recv) /\ recv[i].header = "END_PARTITION" /\ loop = "done"
          \/ i = Len(recv) /\ recv[i].header \notin {"FRAME", "END_PARTITION"}
                /\ loop = "failed"
    /\ loop = "done" => Len(recv) > 0 /\ recv[Len(recv)].header = "END_PARTITION"
    /\ loop = "failed" => Len(recv) > 0
          /\ recv[Len(recv)].header \notin {"FRAME", "END_PARTITION"}
    /\ loop = "yielded" => scope[Reader] # None /\ scope[Reader].header = "FRAME"
    /\ loop \in {"done", "failed", "closed"} => scope[Reader] = None
    /\ Len(pushed) = Len(ClosedHandles)
    /\ \A i \in 1..Len(pushed) : pushed[i] = ClosedHandles[i]

\* The loop raised at an entry of unknown type that carried a payload, after
\* two FRAME entries; all three handles were released.
C17_Witness ==
    /\ loop = "failed"
    /\ Len(recv) = 3
    /\ recv[3].handle # None
    /\ Len(pushed) = 3

\* A constructed pool has its worker count of workers, each with a request
\* channel of its own, all with the response channel of the pool; worker i
\* was started with index i and the i-th pair; and every iteration of
\* all_worker_queues yielded the pairs of the workers in their order.
PoolWellFormed ==
    pool.state = "ready" =>
        /\ Len(pool.workers) = pool.processes
        /\ Len(pool.procs) = pool.processes
        /\ \A k \in 1..Len(pool.workers) :
              /\ pool.workers[k].queues.response = pool.response_q
              /\ pool.workers[k].queues.request # pool.response_q
              /\ pool.procs[pool.workers[k].p].args
                     = [queues |-> pool.workers[k].queues, idx |-> k - 1]
              /\ \A m \in 1..Len(pool.workers) :
                    m # k => /\ pool.workers[m].queues.request
                                  # pool.workers[k].queues.request
                             /\ pool.workers[m].p # pool.workers[k].p
        /\ \A x \in 1..Len(pool.iters) :
              pool.iters[x] = [k \in 1..Len(pool.workers) |-> pool.workers[k].queues]

\* C14: a constructed pool is well formed, and its workers never change.
C14_FixedWorkerSet ==
    [][/\ PoolWellFormed
       /\ PoolWellFormed'
       /\ pool.state = "ready" => /\ pool'.state = "ready"
                                  /\ pool'.workers = pool.workers
                                  /\ pool'.response_q = pool.response_q]_vars

\* A pool of two workers was iterated twice, after one worker terminated.
C14_Witness ==
    /\ pool.state = "ready"
    /\ pool.processes = 2
    /\ Len(pool.iters) = 2
    /\ \E k \in 1..2 : pool.procs[k].state = "terminated"

\* C16: when the constructor of the pool failed, no worker process it
\* started is left running.
C16_NoPartialPool ==
    pool.state = "failed" =>
        \A k \in 1..Len(pool.procs) : pool.procs[k].state # "running"

\* The headers in the entries of a metadata queue.
HeadersIn(queue) == {pickle_loads(queue[i].header) : i \in 1..Len(queue)}

\* The headers worker k has taken from its request queue.
SeenBy(k) == {pool.procs[k].seen[i] : i \in 1..Len(pool.procs[k].seen)}

\* The termination header has been put on the request channel of every
\* worker of the pool.
AllSignalled ==
    \A k \in 1..Len(pool.workers) :
        \/ "END" \in HeadersIn(pool.chans[pool.workers[k].queues.request])
        \/ "END" \in SeenBy(pool.workers[k].p)

JoinReturned == pool.state = "ready" /\ pool.join = "returned"

\* C15: join_all returns only after every worker process has terminated,
\* which a worker does only after it took the termination header; join_all
\* puts nothing on a channel; and once the termination header has been put
\* on every request channel, a join_all that was called returns.
C15_JoinAll ==
    /\ [](JoinReturned =>
             \A k \in 1..Len(pool.workers) :
                 /\ pool.procs[pool.workers[k].p].state = "terminated"
                 /\ "END" \in SeenBy(pool.workers[k].p))
    /\ [][(pool.state = "ready" /\ (pool'.join # pool.join \/ pool'.j # pool.j))
             => pool'.chans = pool.chans]_vars
    /\ ((pool.state = "ready" /\ pool.join = "joining" /\ AllSignalled)
           ~> JoinReturned)

\* join_all returned from a pool of two workers, one of which took another
\* header before the termination header.
C15_Witness ==
    /\ JoinReturned
    /\ pool.processes = 2
    /\ \E k \in 1..2 : "DATA" \in SeenBy(k)

\* C21: a put that fails because its payload is larger than a slot leaves
\* the release queue holding the same handles as before the call.
C21_FailedPutKeepsReleased ==
    [][(last'.op = "put" /\ last'.req > cfg.item_size /\ last'.outcome # "ok")
          => release_q' = release_q]_vars

\* The frames in the FRAME entries among the first n entries put.
RECURSIVE FramesSent(_)
FramesSent(n) ==
    IF n = 0 THEN 0
    ELSE FramesSent(n - 1)
         + (IF sent[n].header = "FRAME" THEN nbytes(sent[n].payload.buf) ELSE 0)

\* C22: whenever handle_task has ended, by returning or by raising, it has
\* put FRAME entries whose frames add up to the frames of the partition,
\* followed by one END_PARTITION entry as the last entry; so the worker is
\* not left waiting in get() on an empty queue for that task.
C22_PartitionHandOff ==
    task.state \in {"returned", "raised"} =>
        /\ Len(sent) >= 1
        /\ sent[Len(sent)].header = "END_PARTITION"
        /\ \A i \in 1..(Len(sent) - 1) : sent[i].header = "FRAME"
        /\ FramesSent(Len(sent)) = task.num_frames_in_partition
        /\ ~(loop = "running" /\ scope[Reader] = None /\ q = <<>>
               /\ (recv = <<>> \/ recv[Len(recv)].header # "END_PARTITION"))

====
